---- MODULE Spec2Model ----
(***************************************************************************)
(* Model of the chat session manager of RealWinAI's floating assistant:    *)
(* the React hook useChatSession (frontend/src/hooks, file                 *)
(* useLocationPricing.ts lines 289-552) as it is mounted by ChatbotWrapper.*)
(*                                                                         *)
(* React semantics that the hook depends on are modelled explicitly:       *)
(*   - sessionInfo is the state value of the last render; every callback   *)
(*     (startSession, endSession, updateActivity, getSessionId and the     *)
(*     event handlers) is a closure over that value;                       *)
(*   - setSessionInfo only queues an update; queuedInfo is the value the   *)
(*     queue evaluates to and Render commits it;                           *)
(*   - a timer callback calls the endSession closure of the render in      *)
(*     which the timer was armed.                                          *)
(* Time is counted in units of five minutes.                               *)
(*                                                                         *)
(* The second part models the widget that uses the hook: FloatingChatbot   *)
(* with its GreetingNotification toast (components/chatbot,                *)
(* FloatingChatbot.tsx), the hook useGreetingNotification and              *)
(* ChatbotWrapper (pages/Signup.tsx) and the login state of AuthProvider.  *)
(* There the effects of a commit are explicit: an action that changes a    *)
(* value in the dependency list of an effect marks the effect, and the     *)
(* marked effects run in React's order before the next event is handled.   *)
(* The delays of the notification are counted in units of 100 ms.          *)
(*                                                                         *)
(* Six specifications: Spec, the hook driven through its interface;        *)
(* SpecRestore, the hook on a page whose stored entry is no valid record;  *)
(* SpecGreeting, the greeting and its notification with a user who sends   *)
(* no message; SpecChat, one visit of the widget with sending and          *)
(* clearing; SpecReply, sending with every way the request can settle;     *)
(* SpecActivity, the open drawer with the session clock running and the    *)
(* commits followed object by object.                                      *)
(***************************************************************************)
EXTENDS Integers, FiniteSets, Sequences, TLC

\* ---------------------------------------------------------------- bounds
\* inactivity timeout passed to the hook, in time units
timeoutDuration == 2
\* horizon of the clock
MaxTime == 3
\* number of uuids that may be generated
MaxSessions == 2
\* number of hook instances (mounts and page loads) in one run
MaxInstances == 2

\* ------------------------------------------------------- program constants
\* the hidden-page timeout, 5 * 60 * 1000 ms = one time unit
HiddenTimeout == 1
\* config.persistInSession as passed by FloatingChatbot
persistInSession == TRUE

VARIABLES
    now,            \* wall clock (new Date()), in time units
    mounted,        \* a hook instance is mounted
    hidden,         \* document.hidden
    sessionInfo,    \* useState value seen by the closures of the last render
    queuedInfo,     \* value of the state after the queued setSessionInfo calls
    dirty,          \* a setSessionInfo call is queued, a render is due
    timeoutRef,     \* timeoutRef.current: a timer id, 0 for null
    isInitialized,  \* isInitialized.current
    storage,        \* sessionStorage['maxChatSession']
    timers,         \* pending setTimeout callbacks of the page
    nextUuid,       \* the next value uuidv4() returns
    instances,      \* hook instances created so far
    heldId,         \* history: id the last getSessionId returned, 0 once that session was ended or replaced
    last            \* history: the last operation, its inputs and its result

vars == <<now, mounted, hidden, sessionInfo, queuedInfo, dirty, timeoutRef,
          isInitialized, storage, timers, nextUuid, instances, heldId, last>>

\* --------------------------------------------- the assistant widget's state
\* FloatingChatbot with its hooks useGreetingNotification and useChatSession,
\* the GreetingNotification toast and the ChatbotWrapper that mounts them.
\* Widget state is written when a handler sets it; the commit that follows
\* a handler is the point from which the pending effects run.
VARIABLES
    isLoggedIn,     \* AuthProvider's isLoggedIn
    pathHidden,     \* location.pathname is /billing or /settings
    open,           \* FloatingChatbot: the drawer is open
    messages,       \* FloatingChatbot: the transcript
    loading,        \* FloatingChatbot: a completion request is in flight
    hasShownInitialGreeting,    \* FloatingChatbot: hasShownInitialGreeting.current
    showNotification,   \* useGreetingNotification state
    greetingMessage,    \* useGreetingNotification state, "" for null
    loadingGreeting,    \* useGreetingNotification state
    hasAttemptedFetch,  \* useGreetingNotification state
    isVisible,      \* GreetingNotification state, FALSE while it is not mounted
    toastTimers,    \* pending setTimeout callbacks of the greeting notification
    inFlight,       \* network requests awaiting their response
    effects,        \* useEffect callbacks whose dependencies changed, to run after the commit
    hist            \* history: what the widget has sent, fetched and shown

chatVars == <<isLoggedIn, pathHidden, open, messages, loading,
              hasShownInitialGreeting, showNotification, greetingMessage,
              loadingGreeting, hasAttemptedFetch, isVisible, toastTimers,
              inFlight, effects, hist>>

\* greetingMessage === null
NoGreeting == ""

\* no request in flight: greeting requests of the mounted widget, greeting
\* requests of widgets since unmounted, completion requests of the mounted widget
NoRequests == [greeting |-> 0, stale |-> 0, chat |-> 0]

\* what the promise of api.post settles with.  kind is "data" for a
\* fulfilled promise, whose response.data.response is in response ("" if
\* the field is missing); kind is "error" for a rejection: axios tells an
\* AxiosError from anything else thrown, code is error.code, status is
\* error.response.status (0 without error.response), request tells
\* whether error.request is set.  kind "none" is no result at all.
Result(k, text, ax, c, st, req) ==
    [kind |-> k, response |-> text, axios |-> ax, code |-> c, status |-> st, request |-> req]

NoResult == Result("none", "", FALSE, "", 0, FALSE)

\* sentBefore   session ids sent with completion requests before the last clear
\* sentAfter    session ids sent since the last clear
\* fetches      greeting requests issued so far
\* greetCalls   greeting requests issued since the last login or reset
\* shows        times the notification was surfaced since the last login or reset
\* shownFor     time the notification has been visible, in units of 100 ms
\* op           the last operation on the widget if it was "send", "sendRejected",
\*              "reply" or "clear", and "other" if not
\* res          what the last completion request settled with, where noted
\* late         a greeting response or show timer of an unmounted widget has run while logged out
NoHistory == [sentBefore |-> {}, sentAfter |-> {}, fetches |-> 0, greetCalls |-> 0, shows |-> 0,
              shownFor |-> 0, op |-> "other", res |-> NoResult, late |-> FALSE]

\* the widget's state right after it is mounted; eff are the effects to run
WidgetInit(eff) ==
    /\ isLoggedIn = TRUE
    /\ pathHidden = FALSE
    /\ open = FALSE
    /\ messages = <<>>
    /\ loading = FALSE
    /\ hasShownInitialGreeting = FALSE
    /\ showNotification = FALSE
    /\ greetingMessage = NoGreeting
    /\ loadingGreeting = FALSE
    /\ hasAttemptedFetch = FALSE
    /\ isVisible = FALSE
    /\ toastTimers = {}
    /\ inFlight = NoRequests
    /\ effects = eff
    /\ hist = NoHistory

\* ------------------------------------------------------------ data model
\* SessionInfo | null: sessionId 0 stands for null
NoSession == [sessionId |-> 0, startTime |-> 0, lastActivityTime |-> 0, isActive |-> FALSE]

\* the JSON value under 'maxChatSession', sessionId 0 for an absent key.
\* toISOString / new Date(iso) keep millisecond precision, so the stored
\* times are the times themselves.
NoRecord == [sessionId |-> 0, startTime |-> 0, lastActivityTime |-> 0]

\* sessionInfo?.isActive, and the negation of (!sessionInfo || !sessionInfo.isActive)
IsActive(s) == s.sessionId # 0 /\ s.isActive

TimerIds == 1 .. 3

\* setTimeout returns a handle distinct from every handle still in use
FreshTimer(ts) ==
    CHOOSE i \in TimerIds :
        /\ i # timeoutRef
        /\ \A t \in ts : t.id # i
        /\ \A j \in TimerIds : (j # timeoutRef /\ \A t \in ts : t.id # j) => i <= j

\* a pending timer: its handle, the time it is due, whether the endSession
\* closure it calls sees an active sessionInfo, and whether the hook
\* instance that armed it is still mounted
Timer(i, d, a) == [id |-> i, due |-> d, closureActive |-> a, live |-> TRUE]

\* clearTimeout(h)
ClearTimeout(ts, h) == {t \in ts : ~(t.live /\ t.id = h)}

LiveTimers == {t \in timers : t.live}
DueTimers == {t \in timers : t.due <= now}

\* ------------------------------------------------------ history records
\* op        the last operation on the hook or the page
\* at        the time it happened
\* ret       the session id it returned, 0 if none
\* was       "active": the committed and the queued state both held an
\*           active session; "idle": neither did; "mixed" otherwise
\* firstGet  it was the first getSessionId of the hook instance
\* stored    what that first getSessionId found in storage
\* prior     the session a reload interrupted, while the reload is the
\*           last operation or the one before a getSessionId
\* held      what heldId was when getSessionId was called
\* noop      the operation left session, storage and timers as they were
\* quiet     no timer has fired since
\* ends      number of sessions ended by a timer since the updateActivity
NoOp == [op |-> "load", at |-> 0, ret |-> 0, was |-> "idle",
         firstGet |-> FALSE, stored |-> NoRecord, prior |-> NoRecord,
         held |-> 0, noop |-> FALSE, quiet |-> TRUE, ends |-> 0]

SessionWas ==
    IF IsActive(sessionInfo) /\ IsActive(queuedInfo) THEN "active"
    ELSE IF ~IsActive(sessionInfo) /\ ~IsActive(queuedInfo) THEN "idle"
    ELSE "mixed"

Did(name) == [NoOp EXCEPT !.op = name, !.at = now]

DidActive(name, unchanged) ==
    [NoOp EXCEPT !.op = name, !.at = now, !.was = SessionWas,
                 !.noop = unchanged]

DidGet(r) ==
    [NoOp EXCEPT !.op = "getSessionId", !.at = now, !.ret = r,
                 !.firstGet = ~isInitialized,
                 !.stored = IF ~isInitialized THEN storage ELSE NoRecord,
                 !.prior = IF last.op = "reload" THEN last.prior ELSE NoRecord,
                 !.held = heldId]

Persisted(s) == [sessionId |-> s.sessionId, startTime |-> s.startTime,
                 lastActivityTime |-> s.lastActivityTime]

Init ==
    /\ now = 0
    /\ mounted = TRUE
    /\ hidden = FALSE
    /\ sessionInfo = NoSession
    /\ queuedInfo = NoSession
    /\ dirty = FALSE
    /\ timeoutRef = 0
    /\ isInitialized = FALSE
    /\ storage = NoRecord
    /\ timers = {}
    /\ nextUuid = 1
    /\ instances = 1
    /\ heldId = 0
    /\ last = NoOp
    /\ WidgetInit({})

\* ---------------------------------------------------------- startSession
NewSession(id) == [sessionId |-> id, startTime |-> now, lastActivityTime |-> now, isActive |-> TRUE]

NewRecord(id) == [sessionId |-> id, startTime |-> now, lastActivityTime |-> now]

\* the body of startSession: setSessionInfo(newSession), setItem, return id
StartSessionBody ==
    /\ queuedInfo' = NewSession(nextUuid)
    /\ dirty' = TRUE
    /\ storage' = IF persistInSession THEN NewRecord(nextUuid) ELSE storage
    /\ nextUuid' = nextUuid + 1

StartSession ==
    /\ mounted
    /\ nextUuid <= MaxSessions
    /\ StartSessionBody
    /\ heldId' = 0
    /\ last' = [Did("startSession") EXCEPT !.ret = nextUuid]
    /\ UNCHANGED <<now, mounted, hidden, sessionInfo, timeoutRef, isInitialized,
                   timers, instances>>
    /\ UNCHANGED chatVars

\* ------------------------------------------------------------ endSession
\* the body of endSession behind its guard, run against the pending timers ts:
\* clearTimeout(timeoutRef.current), setSessionInfo(prev => inactive), removeItem
EndSessionBody(ts) ==
    /\ timers' = IF timeoutRef # 0 THEN ClearTimeout(ts, timeoutRef) ELSE ts
    /\ timeoutRef' = 0
    /\ queuedInfo' = IF queuedInfo.sessionId # 0
                     THEN [queuedInfo EXCEPT !.isActive = FALSE]
                     ELSE NoSession
    /\ dirty' = TRUE
    /\ storage' = IF persistInSession THEN NoRecord ELSE storage

\* endSession() called through the closure of the last render
EndSession ==
    /\ mounted
    /\ IF IsActive(sessionInfo)
       THEN EndSessionBody(timers)
       ELSE UNCHANGED <<timers, timeoutRef, queuedInfo, dirty, storage>>
    /\ heldId' = 0
    /\ last' = DidActive("endSession",
                   \/ ~IsActive(sessionInfo)
                   \/ (/\ timeoutRef = 0
                       /\ ~IsActive(queuedInfo)
                       /\ storage = NoRecord))
    /\ UNCHANGED <<now, mounted, hidden, sessionInfo, isInitialized, nextUuid,
                   instances>>
    /\ UNCHANGED chatVars

\* --------------------------------------------------------- updateActivity
\* the body of updateActivity behind its guard
UpdateActivityBody ==
    LET h == FreshTimer(timers) IN
    /\ queuedInfo' = IF queuedInfo.sessionId # 0
                     THEN [queuedInfo EXCEPT !.lastActivityTime = now]
                     ELSE NoSession
    /\ dirty' = TRUE
    /\ storage' = IF persistInSession /\ storage.sessionId # 0
                  THEN [storage EXCEPT !.lastActivityTime = now]
                  ELSE storage
    /\ timers' = (IF timeoutRef # 0 THEN ClearTimeout(timers, timeoutRef) ELSE timers)
                    \cup {Timer(h, now + timeoutDuration, IsActive(sessionInfo))}
    /\ timeoutRef' = h

\* updateActivity() called through the closure of the last render
UpdateActivity ==
    /\ mounted
    /\ IF IsActive(sessionInfo)
       THEN UpdateActivityBody
       ELSE UNCHANGED <<queuedInfo, dirty, storage, timers, timeoutRef>>
    /\ last' = DidActive("updateActivity", ~IsActive(sessionInfo))
    /\ UNCHANGED <<now, mounted, hidden, sessionInfo, isInitialized, nextUuid,
                   instances, heldId>>
    /\ UNCHANGED chatVars

\* ------------------------------------------- initializeSession, getSessionId
\* now.getTime() - lastActivity.getTime() < timeoutDuration
NotExpired(rec) == now - rec.lastActivityTime < timeoutDuration

\* variant of remainingTime that forgets the time already elapsed
remainingTime_Full(rec) == timeoutDuration

\* timeoutDuration - (now.getTime() - lastActivity.getTime())
remainingTime(rec) == timeoutDuration - (now - rec.lastActivityTime)

RestoredSession(rec) ==
    [sessionId |-> rec.sessionId, startTime |-> rec.startTime,
     lastActivityTime |-> rec.lastActivityTime, isActive |-> TRUE]

\* initializeSession finds a record it can restore
CanRestore ==
    /\ ~isInitialized
    /\ persistInSession
    /\ storage.sessionId # 0
    /\ NotExpired(storage)

\* initializeSession finds a record that has expired
FindsExpired ==
    /\ ~isInitialized
    /\ persistInSession
    /\ storage.sessionId # 0
    /\ ~NotExpired(storage)

\* getSessionId() called through the closure of the last render
GetSessionId ==
    /\ mounted
    /\ isInitialized' = TRUE
    /\ IF CanRestore
       THEN LET h == FreshTimer(timers) IN
            /\ queuedInfo' = RestoredSession(storage)
            /\ dirty' = TRUE
            /\ timers' = timers \cup {Timer(h, now + remainingTime(storage), IsActive(sessionInfo))}
            /\ timeoutRef' = h
            /\ heldId' = storage.sessionId
            /\ last' = DidGet(storage.sessionId)
            /\ UNCHANGED <<storage, nextUuid>>
       ELSE IF ~IsActive(sessionInfo)
       THEN /\ nextUuid <= MaxSessions
            /\ StartSessionBody
            /\ heldId' = nextUuid
            /\ last' = DidGet(nextUuid)
            /\ UNCHANGED <<timers, timeoutRef>>
       ELSE /\ storage' = IF FindsExpired THEN NoRecord ELSE storage
            /\ heldId' = sessionInfo.sessionId
            /\ last' = DidGet(sessionInfo.sessionId)
            /\ UNCHANGED <<queuedInfo, dirty, timers, timeoutRef, nextUuid>>
    /\ UNCHANGED <<now, mounted, hidden, sessionInfo, instances>>
    /\ UNCHANGED chatVars

\* ------------------------------------------------------------------ timers
Bump(n) == IF n < 2 THEN n + 1 ELSE n

\* a due timer runs its callback: the endSession closure it captured
TimerFire ==
    \E t \in DueTimers :
        /\ ~dirty
        /\ IF t.live /\ t.closureActive
           THEN /\ EndSessionBody(timers \ {t})
                /\ heldId' = 0
                /\ last' = [last EXCEPT !.quiet = FALSE,
                                        !.ends = IF last.op = "updateActivity" THEN Bump(@) ELSE @]
           ELSE /\ timers' = timers \ {t}
                \* the callback of an unmounted instance still reaches sessionStorage
                /\ storage' = IF ~t.live /\ t.closureActive /\ persistInSession
                              THEN NoRecord ELSE storage
                /\ last' = [last EXCEPT !.quiet = FALSE]
                /\ UNCHANGED <<timeoutRef, queuedInfo, dirty, heldId>>
        /\ UNCHANGED <<now, mounted, hidden, sessionInfo, isInitialized, nextUuid,
                       instances>>
    /\ UNCHANGED chatVars

\* -------------------------------------------------- handleVisibilityChange
\* the tab becomes hidden
Hide ==
    /\ ~hidden
    /\ ~dirty
    /\ hidden' = TRUE
    /\ IF mounted /\ IsActive(sessionInfo) /\ timeoutRef # 0
       THEN LET h == FreshTimer(timers) IN
            /\ timers' = ClearTimeout(timers, timeoutRef)
                            \cup {Timer(h, now + HiddenTimeout, IsActive(sessionInfo))}
            /\ timeoutRef' = h
       ELSE UNCHANGED <<timers, timeoutRef>>
    /\ last' = DidActive("hide", ~(mounted /\ IsActive(sessionInfo) /\ timeoutRef # 0))
    /\ UNCHANGED <<now, mounted, sessionInfo, queuedInfo, dirty, isInitialized,
                   storage, nextUuid, instances, heldId>>
    /\ UNCHANGED chatVars

\* the tab becomes visible again
Show ==
    /\ hidden
    /\ ~dirty
    /\ hidden' = FALSE
    /\ IF mounted /\ IsActive(sessionInfo)
       THEN UpdateActivityBody
       ELSE UNCHANGED <<queuedInfo, dirty, storage, timers, timeoutRef>>
    /\ last' = DidActive("show", ~(mounted /\ IsActive(sessionInfo)))
    /\ UNCHANGED <<now, mounted, sessionInfo, isInitialized, nextUuid, instances,
                   heldId>>
    /\ UNCHANGED chatVars

\* ------------------------------------------------ unmount, mount, page reload
\* a timer whose hook instance is gone
Orphaned(t) == [id |-> 0, due |-> t.due, closureActive |-> t.closureActive, live |-> FALSE]

\* ChatbotWrapper stops rendering the widget: the cleanup effect clears
\* timeoutRef.current and the instance's state is dropped
Unmount ==
    /\ mounted
    /\ ~dirty
    /\ mounted' = FALSE
    /\ timers' = {Orphaned(t) : t \in (IF timeoutRef # 0 THEN ClearTimeout(timers, timeoutRef) ELSE timers)}
    /\ sessionInfo' = NoSession
    /\ queuedInfo' = NoSession
    /\ timeoutRef' = 0
    /\ isInitialized' = FALSE
    /\ heldId' = 0
    /\ last' = Did("unmount")
    /\ UNCHANGED <<now, hidden, dirty, storage, nextUuid, instances>>
    /\ UNCHANGED chatVars

\* ChatbotWrapper renders the widget again: a new hook instance
Mount ==
    /\ ~mounted
    /\ instances < MaxInstances
    /\ mounted' = TRUE
    /\ instances' = instances + 1
    /\ last' = Did("mount")
    /\ UNCHANGED <<now, hidden, sessionInfo, queuedInfo, dirty, timeoutRef,
                   isInitialized, storage, timers, nextUuid, heldId>>
    /\ UNCHANGED chatVars

\* variant of AfterBeforeUnload that leaves the persisted record alone
AfterBeforeUnload_Keeps == storage

\* handleBeforeUnload: sessionStorage after the handler has run
AfterBeforeUnload ==
    IF mounted /\ IsActive(sessionInfo) /\ persistInSession
    THEN NoRecord ELSE storage

\* the page is reloaded: handleBeforeUnload runs, the page's timers and
\* state are gone, sessionStorage stays, and a new instance mounts
Reload ==
    /\ ~dirty
    /\ instances < MaxInstances
    /\ storage' = AfterBeforeUnload
    /\ timers' = {}
    /\ mounted' = TRUE
    /\ hidden' = FALSE
    /\ sessionInfo' = NoSession
    /\ queuedInfo' = NoSession
    /\ timeoutRef' = 0
    /\ isInitialized' = FALSE
    /\ instances' = instances + 1
    /\ heldId' = 0
    /\ last' = [Did("reload") EXCEPT
                    !.prior = IF mounted /\ IsActive(sessionInfo)
                              THEN Persisted(sessionInfo) ELSE NoRecord]
    /\ UNCHANGED <<now, dirty, nextUuid>>
    /\ UNCHANGED chatVars

\* -------------------------------------------------------- render and clock
\* React commits the queued state and re-creates the callbacks
Render ==
    /\ mounted
    /\ dirty
    /\ sessionInfo' = queuedInfo
    /\ dirty' = FALSE
    /\ UNCHANGED <<now, mounted, hidden, queuedInfo, timeoutRef, isInitialized,
                   storage, timers, nextUuid, instances, heldId, last>>
    /\ UNCHANGED chatVars

\* time passes; pending renders and due timers run first
Tick ==
    /\ now < MaxTime
    /\ ~dirty
    /\ DueTimers = {}
    /\ now' = now + 1
    /\ UNCHANGED <<mounted, hidden, sessionInfo, queuedInfo, dirty, timeoutRef,
                   isInitialized, storage, timers, nextUuid, instances, heldId, last>>
    /\ UNCHANGED chatVars

Next ==
    \/ StartSession
    \/ EndSession
    \/ UpdateActivity
    \/ GetSessionId
    \/ TimerFire
    \/ Hide
    \/ Show
    \/ Unmount
    \/ Mount
    \/ Reload
    \/ Render
    \/ Tick

Spec == Init /\ [][Next]_<<vars, chatVars>>

\* ------------------------------------------- a page with a bad stored entry
\* new Date(undefined).getTime() is NaN, and every comparison with NaN is
\* false: in now - lastActivity < timeoutDuration an invalid date counts as
\* a last activity before every time of the run
InvalidTime == 0 - (MaxTime + timeoutDuration + 1)

\* a 'maxChatSession' value that JSON.parse rejects
BadJson == [sessionId |-> 0 - 1, startTime |-> InvalidTime, lastActivityTime |-> InvalidTime]

\* a 'maxChatSession' value of an earlier page whose lastActivityTime is
\* missing or no date
BadTime == [sessionId |-> 0 - 2, startTime |-> 0, lastActivityTime |-> InvalidTime]

\* sessionStorage throws on access (storage denied to the page)
Unreadable == [sessionId |-> 0 - 3, startTime |-> InvalidTime, lastActivityTime |-> InvalidTime]

\* getSessionId() while sessionStorage throws: initializeSession throws at
\* getItem after setting isInitialized.current; on a later call startSession
\* throws at setItem after setSessionInfo; with an active session rendered
\* the id is returned without touching storage.  ret 0: no id was returned.
GetSessionIdThrows ==
    /\ mounted
    /\ storage = Unreadable
    /\ isInitialized' = TRUE
    /\ IF ~isInitialized
       THEN /\ last' = DidGet(0)
            /\ UNCHANGED <<queuedInfo, dirty, nextUuid, heldId>>
       ELSE IF ~IsActive(sessionInfo)
       THEN /\ nextUuid <= MaxSessions
            /\ queuedInfo' = NewSession(nextUuid)
            /\ dirty' = TRUE
            /\ nextUuid' = nextUuid + 1
            /\ heldId' = 0
            /\ last' = DidGet(0)
       ELSE /\ heldId' = sessionInfo.sessionId
            /\ last' = DidGet(sessionInfo.sessionId)
            /\ UNCHANGED <<queuedInfo, dirty, nextUuid>>
    /\ UNCHANGED <<now, mounted, hidden, sessionInfo, instances, storage, timers, timeoutRef>>
    /\ UNCHANGED chatVars

\* the page is loaded with an entry under 'maxChatSession' that is no valid
\* record, or with a sessionStorage that throws
InitRestore ==
    /\ now = 0
    /\ mounted = TRUE
    /\ hidden = FALSE
    /\ sessionInfo = NoSession
    /\ queuedInfo = NoSession
    /\ dirty = FALSE
    /\ timeoutRef = 0
    /\ isInitialized = FALSE
    /\ storage \in {BadJson, BadTime, Unreadable}
    /\ timers = {}
    /\ nextUuid = 1
    /\ instances = 1
    /\ heldId = 0
    /\ last = NoOp
    /\ WidgetInit({})

\* the hook on such a page, driven through getSessionId; the other
\* operations are followed where sessionStorage works
NextRestore ==
    \/ storage # Unreadable /\ GetSessionId
    \/ GetSessionIdThrows
    \/ storage # Unreadable /\ UpdateActivity
    \/ storage # Unreadable /\ EndSession
    \/ storage # Unreadable /\ TimerFire
    \/ Render
    \/ Tick

SpecRestore == InitRestore /\ [][NextRestore]_<<vars, chatVars>>

\* ======================================================= the assistant widget

\* ---------------------------------------------------------------- bounds
\* length of the transcript up to which the user goes on sending
MaxMessages == 2
\* greeting requests issued in one run
MaxFetches == 2

\* ------------------------------------------------------- program constants
\* delays of the greeting notification, in units of 100 ms
ShowDelay == 10
FadeDelay == 3
AutoHideDelay == 150

\* what the input field may hold when the user submits: nothing, white
\* space, a text
InputValues == {"", " ", "hi"}

\* input.trim()
Trim(s) == IF s = " " THEN "" ELSE s

\* a ChatMessage
Entry(t, c) == [type |-> t, content |-> c]

\* response.data.greeting_message of a successful greeting request
GreetingText == "Hi Sam!"

\* how a greeting request can end: a message, a payload without message, a rejection
GreetingOutcomes == {"message", "empty", "error"}

\* how a completion request can end: a reply, a payload without reply, a rejection
ChatOutcomes == {"reply", "empty", "error"}

\* a fulfilled request
Data(text) == Result("data", text, FALSE, "", 0, FALSE)

\* the request ran into the timeout of 60000 ms
TimedOut == Result("error", "", TRUE, "ECONNABORTED", 0, TRUE)

\* the server answered with an error status
HttpError(st) ==
    Result("error", "", TRUE, IF st >= 500 THEN "ERR_BAD_RESPONSE" ELSE "ERR_BAD_REQUEST", st, TRUE)

\* the request was sent and no response came
NoAnswer == Result("error", "", TRUE, "ERR_NETWORK", 0, TRUE)

\* axios failed before the request was sent
NotSent == Result("error", "", TRUE, "ERR_INVALID_URL", 0, FALSE)

\* something that is not an AxiosError was thrown
Thrown == Result("error", "", FALSE, "", 0, FALSE)

\* the error statuses the server answers with
Statuses == {400, 401, 403, 404, 429, 500, 503}

\* every way a completion request settles
CompletionResults ==
    {Data("reply"), Data(""), TimedOut, NoAnswer, NotSent, Thrown}
        \cup {HttpError(st) : st \in Statuses}

\* variant of the catch block that takes every 5xx status for a server error
ErrorMessage_Any5xx(e) ==
    IF ~e.axios THEN "Sorry, there was an error connecting to the AI service."
    ELSE IF e.code = "ECONNABORTED"
    THEN "The AI is taking longer than usual to respond. This might be due to complex processing. Please try a simpler question or try again later."
    ELSE IF e.status # 0
    THEN IF e.status = 401 \/ e.status = 403 THEN "Please log in to use the chatbot."
         ELSE IF e.status = 429 THEN "Too many requests. Please wait a moment and try again."
         ELSE IF e.status >= 500 THEN "Server error. Please try again later."
         ELSE "Service error (" \o ToString(e.status) \o "). Please try again."
    ELSE IF e.request
    THEN "Unable to connect to the service. Please check your internet connection."
    ELSE "Sorry, there was an error connecting to the AI service."

\* the catch block of handleSendMessage: errorMessage for the error caught
ErrorMessage(e) ==
    IF ~e.axios THEN "Sorry, there was an error connecting to the AI service."
    ELSE IF e.code = "ECONNABORTED"
    THEN "The AI is taking longer than usual to respond. This might be due to complex processing. Please try a simpler question or try again later."
    ELSE IF e.status # 0
    THEN IF e.status = 401 \/ e.status = 403 THEN "Please log in to use the chatbot."
         ELSE IF e.status = 429 THEN "Too many requests. Please wait a moment and try again."
         ELSE IF e.status = 500 THEN "Server error. Please try again later."
         ELSE "Service error (" \o ToString(e.status) \o "). Please try again."
    ELSE IF e.request
    THEN "Unable to connect to the service. Please check your internet connection."
    ELSE "Sorry, there was an error connecting to the AI service."

\* the text of the assistant entry appended when the request has settled:
\* response.data?.response || "No response from AI.", or the catch block's
AssistantText(res) ==
    IF res.kind = "data"
    THEN IF res.response # "" THEN res.response ELSE "No response from AI."
    ELSE ErrorMessage(res)

\* the results that stand for the three outcomes
ResultOf(outcome) ==
    CASE outcome = "reply" -> Data("reply")
      [] outcome = "empty" -> Data("")
      [] OTHER -> Thrown

\* the outcome a result belongs to
OutcomeOf(res) ==
    IF res.kind # "data" THEN "error"
    ELSE IF res.response # "" THEN "reply" ELSE "empty"

\* the assistant entry handleSendMessage appends for an outcome
BotReply(outcome) == Entry("bot", AssistantText(ResultOf(outcome)))

\* the variables of useChatSession that the widget's handlers leave alone
hookFrame == <<now, mounted, hidden, instances, heldId, last>>

\* the session state a call of endSession or updateActivity may change
sessionVars == <<queuedInfo, dirty, storage, timers, timeoutRef>>

\* the history after an operation that no claim singles out
Other == [hist EXCEPT !.op = "other"]

\* the toast is rendered: showNotification && greetingMessage
ToastMounted(show, greeting) == show /\ greeting # NoGreeting

\* the handle setTimeout returns: the smallest one not in use
FreshToast(ts) == CHOOSE h \in 1 .. Cardinality(ts) + 1 : \A t \in ts : t.id # h

\* a timer of the notification armed while the timers ts are pending: what
\* it does, the time left, and whether the widget that armed it is still
\* mounted
ToastTimer(k, d, ts) == [id |-> FreshToast(ts), kind |-> k, left |-> d, live |-> TRUE]

\* the cleanup of the auto-hide effect: clearTimeout(timer)
WithoutHide(ts) == {t \in ts : ~(t.live /\ t.kind = "hide")}

\* the effects in the order React runs them after a commit: the toast's
\* (child) before the widget's, each component's in the order of declaration
EffOrder == <<"visible", "autohide", "login", "open", "greet">>

\* e is the first pending effect
IsNext(e) ==
    /\ mounted
    /\ ~dirty
    /\ e \in effects
    /\ \A i, j \in 1 .. Len(EffOrder) :
            (EffOrder[j] = e /\ i < j) => EffOrder[i] \notin effects

\* effects whose dependency list differs between this state and the next
DepsChanged ==
    (IF open' # open \/ Len(messages') # Len(messages)
     THEN {"open", "greet"} ELSE {})
    \cup (IF greetingMessage' # greetingMessage THEN {"greet"} ELSE {})
    \cup (IF hasAttemptedFetch' # hasAttemptedFetch \/ loadingGreeting' # loadingGreeting
          THEN {"login"} ELSE {})
    \cup (IF /\ ToastMounted(showNotification', greetingMessage')
             /\ \/ ~ToastMounted(showNotification, greetingMessage)
                \/ greetingMessage' # greetingMessage
          THEN {"visible"} ELSE {})
    \cup (IF /\ ToastMounted(showNotification', greetingMessage')
             /\ ToastMounted(showNotification, greetingMessage)
             /\ isVisible' # isVisible
          THEN {"autohide"} ELSE {})

\* a user event is handled: the last commit is done and its effects have run
Quiet == mounted /\ ~dirty /\ effects = {}

\* a timer callback or a response is handled
EnvQuiet == ~dirty /\ effects = {}

\* no timer of the notification is pending
ToastIdle == toastTimers = {}

\* ------------------------------------------------- GreetingNotification
\* effect on [greeting]: setIsVisible(true)
EffVisible ==
    /\ IsNext("visible")
    /\ isVisible' = (isVisible \/ ToastMounted(showNotification, greetingMessage))
    /\ hist' = IF isVisible' # isVisible
               THEN [hist EXCEPT !.shows = IF @ < 2 THEN @ + 1 ELSE @, !.shownFor = 0,
                                 !.op = "other"]
               ELSE [hist EXCEPT !.op = "other"]
    /\ UNCHANGED <<isLoggedIn, pathHidden, open, messages, loading,
                   hasShownInitialGreeting, showNotification, greetingMessage,
                   loadingGreeting, hasAttemptedFetch, toastTimers, inFlight>>
    /\ effects' = (effects \ {"visible"}) \cup
                    (IF isVisible' # isVisible THEN {"autohide"} ELSE {})
    /\ UNCHANGED <<hookFrame, sessionInfo, isInitialized, nextUuid, sessionVars>>

\* effect on [isVisible, handleClose]: the cleanup of the previous run, then
\* setTimeout(handleClose, 15000) if the toast is visible
EffAutoHide ==
    /\ IsNext("autohide")
    /\ toastTimers' = WithoutHide(toastTimers) \cup
                        (IF isVisible
                         THEN {ToastTimer("hide", AutoHideDelay, WithoutHide(toastTimers))}
                         ELSE {})
    /\ effects' = effects \ {"autohide"}
    /\ hist' = Other
    /\ UNCHANGED <<isLoggedIn, pathHidden, open, messages, loading,
                   hasShownInitialGreeting, showNotification, greetingMessage,
                   loadingGreeting, hasAttemptedFetch, isVisible, inFlight>>
    /\ UNCHANGED <<hookFrame, sessionInfo, isInitialized, nextUuid, sessionVars>>

\* handleClose: setIsVisible(false); setTimeout(onClose, 300)
HandleClose(ts) == ts \cup {ToastTimer("fade", FadeDelay, ts)}

\* the close button of the toast
CloseNotification ==
    /\ Quiet
    /\ ToastMounted(showNotification, greetingMessage)
    /\ isVisible
    /\ isVisible' = FALSE
    /\ toastTimers' = HandleClose(toastTimers)
    /\ hist' = [hist EXCEPT !.op = "other", !.shownFor = 0]
    /\ UNCHANGED <<isLoggedIn, pathHidden, open, messages, loading,
                   hasShownInitialGreeting, showNotification, greetingMessage,
                   loadingGreeting, hasAttemptedFetch, inFlight>>
    /\ effects' = DepsChanged
    /\ UNCHANGED <<hookFrame, sessionInfo, isInitialized, nextUuid, sessionVars>>

\* a click on the toast: the hook's handleNotificationClick (hide the
\* notification, open the drawer), then the toast's handleClose; the toast
\* is unmounted by the commit and its auto-hide timer cleared
NotificationClick ==
    /\ Quiet
    /\ ToastMounted(showNotification, greetingMessage)
    /\ isVisible
    /\ showNotification' = FALSE
    /\ open' = TRUE
    /\ isVisible' = FALSE
    /\ toastTimers' = HandleClose(WithoutHide(toastTimers))
    /\ hist' = [hist EXCEPT !.op = "other", !.shownFor = 0]
    /\ UNCHANGED <<isLoggedIn, pathHidden, messages, loading,
                   hasShownInitialGreeting, greetingMessage,
                   loadingGreeting, hasAttemptedFetch, inFlight>>
    /\ effects' = DepsChanged
    /\ UNCHANGED <<hookFrame, sessionInfo, isInitialized, nextUuid, sessionVars>>

\* a timer of the notification runs its callback
ToastTimerFire ==
    \E t \in toastTimers :
        /\ EnvQuiet
        /\ t.left = 0
        /\ CASE t.kind = "show" ->
                \* setShowNotification(true), lost if the widget is gone
                /\ showNotification' = (showNotification \/ t.live)
                /\ isVisible' = isVisible
                /\ toastTimers' = toastTimers \ {t}
                /\ hist' = [hist EXCEPT !.late = @ \/ (~t.live /\ ~isLoggedIn),
                                        !.op = "other"]
             [] t.kind = "hide" ->
                \* handleClose
                /\ showNotification' = showNotification
                /\ isVisible' = FALSE
                /\ toastTimers' = HandleClose(toastTimers \ {t})
                /\ hist' = [hist EXCEPT !.op = "other", !.shownFor = 0]
             [] OTHER ->
                \* onClose: dismissNotification unmounts the toast
                /\ showNotification' = (showNotification /\ ~t.live)
                /\ isVisible' = (isVisible /\ ~t.live)
                /\ toastTimers' = IF t.live THEN WithoutHide(toastTimers \ {t})
                                  ELSE toastTimers \ {t}
                /\ hist' = [hist EXCEPT !.op = "other",
                                        !.shownFor = IF t.live THEN 0 ELSE @]
        /\ UNCHANGED <<isLoggedIn, pathHidden, open, messages, loading,
                       hasShownInitialGreeting, greetingMessage,
                       loadingGreeting, hasAttemptedFetch, inFlight>>
        /\ effects' = DepsChanged
        /\ UNCHANGED <<hookFrame, sessionInfo, isInitialized, nextUuid, sessionVars>>

\* the time left until the next timer of the notification
MinLeft == CHOOSE d \in 0 .. AutoHideDelay :
                /\ \E t \in toastTimers : t.left = d
                /\ \A t \in toastTimers : t.left >= d

\* d * 100 ms pass
Elapse(d) ==
    /\ EnvQuiet
    /\ toastTimers # {}
    /\ d >= 1
    /\ d <= MinLeft
    /\ toastTimers' = {[t EXCEPT !.left = @ - d] : t \in toastTimers}
    /\ hist' = [hist EXCEPT !.shownFor = IF isVisible THEN @ + d ELSE @]
    /\ UNCHANGED <<isLoggedIn, pathHidden, open, messages, loading,
                   hasShownInitialGreeting, showNotification, greetingMessage,
                   loadingGreeting, hasAttemptedFetch, isVisible, inFlight, effects>>
    /\ UNCHANGED <<hookFrame, sessionInfo, isInitialized, nextUuid, sessionVars>>

\* time passes until the next timer of the notification is due
ElapseToNext ==
    /\ toastTimers # {}
    /\ Elapse(MinLeft)

\* ----------------------------------------------- useGreetingNotification
\* fetchGreeting() up to its await: the guard, then either getCurrentUser()
\* finds no user (the finally block runs at once) or the request is sent
FetchGreeting ==
    IF ~isLoggedIn \/ hasAttemptedFetch \/ loadingGreeting
    THEN /\ hist' = Other
         /\ UNCHANGED <<loadingGreeting, hasAttemptedFetch, inFlight>>
    ELSE \E resolved \in BOOLEAN :
            IF resolved
            THEN /\ hist.fetches < MaxFetches
                 /\ loadingGreeting' = TRUE
                 /\ inFlight' = [inFlight EXCEPT !.greeting = @ + 1]
                 /\ hist' = [hist EXCEPT !.fetches = @ + 1,
                                         !.greetCalls = IF @ < 2 THEN @ + 1 ELSE @,
                                         !.op = "other"]
                 /\ UNCHANGED hasAttemptedFetch
            ELSE /\ hasAttemptedFetch' = TRUE
                 /\ hist' = [hist EXCEPT !.op = "other"]
                 /\ UNCHANGED <<loadingGreeting, inFlight>>

\* effect on [isLoggedIn, fetchGreeting, hasAttemptedFetch]
EffLogin ==
    /\ IsNext("login")
    /\ IF isLoggedIn /\ ~hasAttemptedFetch
       THEN /\ FetchGreeting
            /\ UNCHANGED <<showNotification, greetingMessage>>
       ELSE IF ~isLoggedIn
       THEN /\ showNotification' = FALSE
            /\ greetingMessage' = NoGreeting
            /\ hasAttemptedFetch' = FALSE
            /\ loadingGreeting' = FALSE
            /\ hist' = Other
            /\ UNCHANGED inFlight
       ELSE /\ hist' = Other
            /\ UNCHANGED <<showNotification, greetingMessage, loadingGreeting,
                           hasAttemptedFetch, inFlight>>
    /\ UNCHANGED <<isLoggedIn, pathHidden, open, messages, loading,
                   hasShownInitialGreeting, isVisible, toastTimers>>
    /\ effects' = (effects \ {"login"}) \cup DepsChanged
    /\ UNCHANGED <<hookFrame, sessionInfo, isInitialized, nextUuid, sessionVars>>

\* the greeting request of the mounted widget settles: fetchGreeting() after
\* its await
GreetingResponse ==
    \E outcome \in GreetingOutcomes :
        /\ EnvQuiet
        /\ inFlight.greeting > 0
        /\ inFlight' = [inFlight EXCEPT !.greeting = @ - 1]
        /\ IF outcome = "message"
           THEN /\ greetingMessage' = GreetingText
                /\ toastTimers' = toastTimers \cup {ToastTimer("show", ShowDelay, toastTimers)}
           ELSE UNCHANGED <<greetingMessage, toastTimers>>
        /\ loadingGreeting' = FALSE
        /\ hasAttemptedFetch' = TRUE
        /\ hist' = [hist EXCEPT !.op = "other"]
        /\ UNCHANGED <<isLoggedIn, pathHidden, open, messages, loading,
                       hasShownInitialGreeting, showNotification, isVisible>>
        /\ effects' = DepsChanged
        /\ UNCHANGED <<hookFrame, sessionInfo, isInitialized, nextUuid, sessionVars>>

\* a greeting request of a widget that has been unmounted settles: its state
\* setters do nothing, its show timer is still armed
StaleGreetingResponse ==
    \E outcome \in GreetingOutcomes :
        /\ EnvQuiet
        /\ inFlight.stale > 0
        /\ inFlight' = [inFlight EXCEPT !.stale = @ - 1]
        /\ toastTimers' = IF outcome = "message"
                          THEN toastTimers \cup {[ToastTimer("show", ShowDelay, toastTimers)
                                                   EXCEPT !.live = FALSE]}
                          ELSE toastTimers
        /\ hist' = [hist EXCEPT !.late = @ \/ ~isLoggedIn, !.op = "other"]
        /\ UNCHANGED <<isLoggedIn, pathHidden, open, messages, loading,
                       hasShownInitialGreeting, showNotification, greetingMessage,
                       loadingGreeting, hasAttemptedFetch, isVisible, effects>>
        /\ UNCHANGED <<hookFrame, sessionInfo, isInitialized, nextUuid, sessionVars>>

\* ------------------------------------------------------- FloatingChatbot
\* updateActivity() called through the closure of the last render
CallUpdateActivity ==
    IF IsActive(sessionInfo) THEN UpdateActivityBody ELSE UNCHANGED sessionVars

\* effect on [open, messages.length, updateActivity]
EffOpen ==
    /\ IsNext("open")
    /\ IF open /\ Len(messages) > 0
       THEN CallUpdateActivity
       ELSE UNCHANGED sessionVars
    /\ effects' = effects \ {"open"}
    /\ hist' = Other
    /\ UNCHANGED <<isLoggedIn, pathHidden, open, messages, loading,
                   hasShownInitialGreeting, showNotification, greetingMessage,
                   loadingGreeting, hasAttemptedFetch, isVisible, toastTimers,
                   inFlight>>
    /\ UNCHANGED <<hookFrame, sessionInfo, isInitialized, nextUuid>>

\* variant of the test of the greeting effect without messages.length === 0
ShouldGreet_AnyLength ==
    /\ open
    /\ ~hasShownInitialGreeting
    /\ greetingMessage # NoGreeting

\* the test of the greeting effect
ShouldGreet ==
    /\ open
    /\ Len(messages) = 0
    /\ ~hasShownInitialGreeting
    /\ greetingMessage # NoGreeting

\* effect on [open, messages.length, greetingMessage, updateActivity]
EffGreet ==
    /\ IsNext("greet")
    /\ IF ShouldGreet
       THEN /\ hasShownInitialGreeting' = TRUE
            /\ messages' = <<Entry("bot", greetingMessage)>>
            /\ CallUpdateActivity
            /\ hist' = Other
       ELSE /\ hist' = Other
            /\ UNCHANGED <<hasShownInitialGreeting, messages, sessionVars>>
    /\ UNCHANGED <<isLoggedIn, pathHidden, open, loading,
                   showNotification, greetingMessage,
                   loadingGreeting, hasAttemptedFetch, isVisible, toastTimers,
                   inFlight>>
    /\ effects' = (effects \ {"greet"}) \cup DepsChanged
    /\ UNCHANGED <<hookFrame, sessionInfo, isInitialized, nextUuid>>

\* handleOpenChange(isOpen) of the drawer
OpenChange ==
    \E isOpen \in BOOLEAN :
        /\ Quiet
        /\ isOpen # open
        /\ open' = isOpen
        /\ hasShownInitialGreeting' = (isOpen /\ hasShownInitialGreeting)
        /\ hist' = [hist EXCEPT !.op = "other"]
        /\ UNCHANGED <<isLoggedIn, pathHidden, messages, loading,
                       showNotification, greetingMessage,
                       loadingGreeting, hasAttemptedFetch, isVisible, toastTimers,
                       inFlight>>
        /\ effects' = DepsChanged
        /\ UNCHANGED <<hookFrame, sessionInfo, isInitialized, nextUuid, sessionVars>>

\* variant of the guard of handleSendMessage that tests the input alone
Rejects_InputOnly(text, busy) == Trim(text) = ""

\* the guard of handleSendMessage: !input.trim() || loading
Rejects(text, busy) == Trim(text) = "" \/ busy

\* the id getSessionId() returns to handleSendMessage
SendSessionId ==
    IF IsActive(sessionInfo) THEN sessionInfo.sessionId
    ELSE IF CanRestore THEN storage.sessionId
    ELSE nextUuid

\* getSessionId() and then updateActivity(), both through the closures of
\* the last render.  While that render saw an active session, getSessionId
\* returns its id and updateActivity runs; otherwise getSessionId restores
\* or starts a session and updateActivity returns at its guard, because its
\* closure still sees no active session.  The widget never holds an active
\* session in a hook that has not run initializeSession (HookInitialized).
SendSession ==
    IF IsActive(sessionInfo)
    THEN /\ isInitialized
         /\ UpdateActivityBody
         /\ UNCHANGED <<isInitialized, nextUuid>>
    ELSE /\ isInitialized' = TRUE
         /\ IF CanRestore
            THEN LET h == FreshTimer(timers) IN
                 /\ queuedInfo' = RestoredSession(storage)
                 /\ dirty' = TRUE
                 /\ timers' = timers \cup {Timer(h, now + remainingTime(storage), IsActive(sessionInfo))}
                 /\ timeoutRef' = h
                 /\ UNCHANGED <<storage, nextUuid>>
            ELSE /\ nextUuid <= MaxSessions
                 /\ StartSessionBody
                 /\ UNCHANGED <<timers, timeoutRef>>

\* handleSendMessage up to its await, with the text the input field holds
SendMessage ==
    \E input \in InputValues :
    /\ Quiet
    /\ open
    /\ IF Rejects(input, loading)
       THEN /\ hist' = [hist EXCEPT !.op = "sendRejected"]
            /\ UNCHANGED <<messages, loading, inFlight, isInitialized,
                           nextUuid, sessionVars>>
       ELSE /\ Len(messages) < MaxMessages
            /\ messages' = Append(messages, Entry("user", Trim(input)))
            /\ loading' = TRUE
            /\ SendSession
            /\ inFlight' = [inFlight EXCEPT !.chat = @ + 1]
            /\ hist' = [hist EXCEPT !.sentAfter = @ \cup {SendSessionId},
                                    !.op = "send"]
    /\ UNCHANGED <<isLoggedIn, pathHidden, open,
                   hasShownInitialGreeting, showNotification, greetingMessage,
                   loadingGreeting, hasAttemptedFetch, isVisible, toastTimers>>
    /\ effects' = DepsChanged
    /\ UNCHANGED <<hookFrame, sessionInfo>>

\* variant of handleSendMessage with setLoading(false) at the end of the try
\* block instead of the finally block
LoadingAfter_TryOnly(outcome) == outcome = "error"

\* loading after the request has settled: the finally block, setLoading(false)
LoadingAfter(outcome) == FALSE

\* variant of the update of the transcript that sets it to the new entry
WithEntry_Alone(prev, e) == <<e>>

\* setMessages((prev) => [...prev, entry])
WithEntry(prev, e) == Append(prev, e)

\* handleSendMessage after its await: the completion request settles
Settle(res, noted) ==
    /\ EnvQuiet
    /\ inFlight.chat > 0
    /\ inFlight' = [inFlight EXCEPT !.chat = @ - 1]
    /\ messages' = WithEntry(messages, Entry("bot", AssistantText(res)))
    /\ loading' = LoadingAfter(OutcomeOf(res))
    /\ hist' = [hist EXCEPT !.op = "reply", !.res = noted]
    /\ UNCHANGED <<isLoggedIn, pathHidden, open,
                   hasShownInitialGreeting, showNotification, greetingMessage,
                   loadingGreeting, hasAttemptedFetch, isVisible, toastTimers>>
    /\ effects' = DepsChanged
    /\ UNCHANGED <<hookFrame, sessionInfo, isInitialized, nextUuid, sessionVars>>

\* the completion request settles in one of the three outcomes; the history
\* takes no note of the result
ChatResponse ==
    \E outcome \in ChatOutcomes : Settle(ResultOf(outcome), hist.res)

\* the completion request settles in any way it can
ChatSettles ==
    \E res \in CompletionResults : Settle(res, res)

\* variant of handleClearChat that leaves hasShownInitialGreeting.current alone
GreetedAfterClear_Kept == hasShownInitialGreeting

\* hasShownInitialGreeting.current after handleClearChat
GreetedAfterClear == FALSE

\* handleClearChat, the button in the header of the open drawer
ClearChat ==
    /\ Quiet
    /\ open
    /\ IF IsActive(sessionInfo)
       THEN EndSessionBody(timers)
       ELSE UNCHANGED sessionVars
    /\ messages' = <<>>
    \* resetGreeting()
    /\ greetingMessage' = NoGreeting
    /\ hasAttemptedFetch' = FALSE
    /\ showNotification' = FALSE
    /\ loadingGreeting' = FALSE
    /\ hasShownInitialGreeting' = GreetedAfterClear
    \* the commit unmounts the toast
    /\ isVisible' = FALSE
    /\ toastTimers' = WithoutHide(toastTimers)
    /\ hist' = [hist EXCEPT !.sentBefore = @ \cup hist.sentAfter, !.sentAfter = {},
                            !.greetCalls = 0, !.shows = 0,
                            !.shownFor = 0, !.op = "clear"]
    /\ UNCHANGED <<isLoggedIn, pathHidden, open, loading, inFlight>>
    /\ effects' = DepsChanged
    /\ UNCHANGED <<hookFrame, sessionInfo, isInitialized, nextUuid>>

\* React commits the queued session state; updateActivity is re-created
\* when sessionInfo changed, and the effects that depend on it run again.
\* The commit is followed up to the value of the record: a record equal to
\* the one before marks no effect (RenderIdentity follows the objects).
ChatRender ==
    /\ mounted
    /\ dirty
    /\ sessionInfo' = queuedInfo
    /\ dirty' = FALSE
    /\ effects' = effects \cup (IF queuedInfo # sessionInfo THEN {"open", "greet"} ELSE {})
    /\ hist' = Other
    /\ UNCHANGED <<isLoggedIn, pathHidden, open, messages, loading,
                   hasShownInitialGreeting, showNotification, greetingMessage,
                   loadingGreeting, hasAttemptedFetch, isVisible, toastTimers,
                   inFlight>>
    /\ UNCHANGED <<hookFrame, queuedInfo, timeoutRef, isInitialized, storage,
                   timers, nextUuid>>

\* ------------------------------------------- ChatbotWrapper, AuthProvider
\* variant of ChatbotWrapper that renders the widget for a logged-out user
Renders_Always(loggedIn, hiddenPath) == ~hiddenPath

\* ChatbotWrapper renders the widget
Renders(loggedIn, hiddenPath) == loggedIn /\ ~hiddenPath

\* the widget is unmounted: the cleanups of useChatSession and of the toast
\* run, the state of the instance is dropped, its requests and its timers
\* without cleanup stay pending
WidgetGone ==
    /\ mounted' = FALSE
    /\ timers' = {Orphaned(t) : t \in (IF timeoutRef # 0 THEN ClearTimeout(timers, timeoutRef) ELSE timers)}
    /\ sessionInfo' = NoSession
    /\ queuedInfo' = NoSession
    /\ timeoutRef' = 0
    /\ isInitialized' = FALSE
    /\ open' = FALSE
    /\ messages' = <<>>
    /\ loading' = FALSE
    /\ hasShownInitialGreeting' = FALSE
    /\ showNotification' = FALSE
    /\ greetingMessage' = NoGreeting
    /\ loadingGreeting' = FALSE
    /\ hasAttemptedFetch' = FALSE
    /\ isVisible' = FALSE
    /\ toastTimers' = {[t EXCEPT !.live = FALSE] : t \in WithoutHide(toastTimers)}
    /\ inFlight' = [greeting |-> 0, stale |-> inFlight.stale + inFlight.greeting, chat |-> 0]
    /\ effects' = {}
    /\ UNCHANGED <<instances>>

\* a new instance of the widget is mounted: every effect runs, of which the
\* login effect alone finds something to do
WidgetMounted ==
    /\ mounted' = TRUE
    /\ effects' = {"login"}
    /\ UNCHANGED <<instances, timers, sessionInfo, queuedInfo, timeoutRef, isInitialized,
                   open, messages, loading, hasShownInitialGreeting,
                   showNotification, greetingMessage, loadingGreeting,
                   hasAttemptedFetch, isVisible, toastTimers, inFlight>>

\* the widget is mounted or unmounted as ChatbotWrapper's test changes
Remount ==
    IF mounted /\ ~Renders(isLoggedIn', pathHidden') THEN WidgetGone
    ELSE IF ~mounted /\ Renders(isLoggedIn', pathHidden') THEN WidgetMounted
    ELSE /\ effects' = effects \cup (IF mounted /\ isLoggedIn' # isLoggedIn
                                         THEN {"login"} ELSE {})
         /\ UNCHANGED <<mounted, instances, timers, sessionInfo, queuedInfo, timeoutRef,
                        isInitialized, open, messages, loading,
                        hasShownInitialGreeting, showNotification, greetingMessage,
                        loadingGreeting, hasAttemptedFetch, isVisible, toastTimers,
                        inFlight>>

\* the user navigates to /billing or /settings
NavigateAway ==
    /\ EnvQuiet
    /\ ~pathHidden
    /\ pathHidden' = TRUE
    /\ UNCHANGED isLoggedIn
    /\ Remount
    /\ hist' = [hist EXCEPT !.shownFor = 0, !.op = "other"]
    /\ UNCHANGED <<now, hidden, dirty, storage, nextUuid, heldId, last>>

\* the user navigates back to a page with the assistant
NavigateBack ==
    /\ EnvQuiet
    /\ pathHidden
    /\ pathHidden' = FALSE
    /\ UNCHANGED isLoggedIn
    /\ Remount
    /\ hist' = [hist EXCEPT !.op = "other"]
    /\ UNCHANGED <<now, hidden, dirty, storage, nextUuid, heldId, last>>

\* AuthProvider: setIsLoggedIn(false), the token is gone
Logout ==
    /\ EnvQuiet
    /\ isLoggedIn
    /\ isLoggedIn' = FALSE
    /\ UNCHANGED pathHidden
    /\ Remount
    /\ hist' = [hist EXCEPT !.greetCalls = 0, !.shows = 0, !.shownFor = 0,
                            !.late = FALSE, !.op = "other"]
    /\ UNCHANGED <<now, hidden, dirty, storage, nextUuid, heldId, last>>

\* AuthProvider: checkAuth finds a valid token, setIsLoggedIn(true)
Login ==
    /\ EnvQuiet
    /\ ~isLoggedIn
    /\ isLoggedIn' = TRUE
    /\ UNCHANGED pathHidden
    /\ Remount
    /\ hist' = [hist EXCEPT !.greetCalls = 0, !.shows = 0, !.late = FALSE,
                            !.op = "other"]
    /\ UNCHANGED <<now, hidden, dirty, storage, nextUuid, heldId, last>>

\* the page with the widget is reloaded: handleBeforeUnload runs, timers,
\* requests and state of the page are gone, and the widget mounts again
ChatReload ==
    /\ EnvQuiet
    /\ mounted
    /\ storage' = AfterBeforeUnload
    /\ timers' = {}
    /\ sessionInfo' = NoSession
    /\ queuedInfo' = NoSession
    /\ timeoutRef' = 0
    /\ isInitialized' = FALSE
    /\ open' = FALSE
    /\ messages' = <<>>
    /\ loading' = FALSE
    /\ hasShownInitialGreeting' = FALSE
    /\ showNotification' = FALSE
    /\ greetingMessage' = NoGreeting
    /\ loadingGreeting' = FALSE
    /\ hasAttemptedFetch' = FALSE
    /\ isVisible' = FALSE
    /\ toastTimers' = {}
    /\ inFlight' = NoRequests
    /\ effects' = {"login"}
    /\ hist' = [hist EXCEPT !.greetCalls = 0, !.shows = 0, !.shownFor = 0,
                            !.op = "reload"]
    /\ UNCHANGED <<now, mounted, hidden, dirty, nextUuid, instances, heldId, last,
                   isLoggedIn, pathHidden>>

\* ---------------------------------------------------------- specifications
InitChat ==
    /\ now = 0
    /\ mounted = TRUE
    /\ hidden = FALSE
    /\ sessionInfo = NoSession
    /\ queuedInfo = NoSession
    /\ dirty = FALSE
    /\ timeoutRef = 0
    /\ isInitialized = FALSE
    /\ storage = NoRecord
    /\ timers = {}
    /\ nextUuid = 1
    /\ instances = 1
    /\ heldId = 0
    /\ last = NoOp
    /\ WidgetInit({"login"})

\* one visit of the widget, shorter than a unit of the session clock, the tab
\* in the foreground.  The user and the network act between notifications:
\* while a timer of the notification is pending only effects, commits and
\* that timer run.
NextChat ==
    \/ EffVisible
    \/ EffAutoHide
    \/ EffLogin
    \/ EffOpen
    \/ EffGreet
    \/ ChatRender
    \/ ToastTimerFire
    \/ ElapseToNext
    \/ ToastIdle /\ OpenChange
    \/ ToastIdle /\ SendMessage
    \/ ToastIdle /\ ChatResponse
    \/ ToastIdle /\ ClearChat
    \/ ToastIdle /\ GreetingResponse
    \/ ToastIdle /\ StaleGreetingResponse
    \/ ToastIdle /\ NavigateAway
    \/ ToastIdle /\ NavigateBack
    \/ ToastIdle /\ ChatReload

allVars == <<vars, chatVars>>

SpecChat == InitChat /\ [][NextChat]_allVars

\* sending and the settling of the completion request in every way it can,
\* with no greeting arriving
NextReply ==
    \/ EffLogin
    \/ EffOpen
    \/ EffGreet
    \/ ChatRender
    \/ OpenChange
    \/ SendMessage
    \/ ChatSettles
    \/ ClearChat

SpecReply == InitChat /\ [][NextReply]_allVars

\* React commits the queued session state as it does in the browser: every
\* setSessionInfo of the hook passes an updater that builds a new object
\* from a record, so sessionInfo is a new object after the commit unless it
\* was and stays null; updateActivity (useCallback on sessionInfo) is then a
\* new function, and the effects that list it run again
RenderIdentity ==
    /\ mounted
    /\ dirty
    /\ sessionInfo' = queuedInfo
    /\ dirty' = FALSE
    /\ effects' = effects \cup (IF queuedInfo.sessionId # 0 \/ sessionInfo.sessionId # 0
                                THEN {"open", "greet"} ELSE {})
    /\ hist' = Other
    /\ UNCHANGED <<isLoggedIn, pathHidden, open, messages, loading,
                   hasShownInitialGreeting, showNotification, greetingMessage,
                   loadingGreeting, hasAttemptedFetch, isVisible, toastTimers,
                   inFlight>>
    /\ UNCHANGED <<hookFrame, queuedInfo, timeoutRef, isInitialized, storage,
                   timers, nextUuid>>

\* the open drawer with the session clock running and the commits of React
\* followed object by object
NextActivity ==
    \/ EffLogin
    \/ EffOpen
    \/ EffGreet
    \/ RenderIdentity
    \/ OpenChange
    \/ SendMessage
    \/ ChatResponse
    \/ GreetingResponse
    \/ TimerFire
    \/ Tick

SpecActivity == InitChat /\ [][NextActivity]_allVars

\* the greeting and its notification, with a user who sends no message
NextGreeting ==
    \/ EffVisible
    \/ EffAutoHide
    \/ EffLogin
    \/ EffOpen
    \/ EffGreet
    \/ OpenChange
    \/ ClearChat
    \/ GreetingResponse
    \/ StaleGreetingResponse
    \/ NotificationClick
    \/ CloseNotification
    \/ ToastTimerFire
    \/ ElapseToNext
    \/ NavigateAway
    \/ NavigateBack
    \/ Logout
    \/ Login

SpecGreeting == InitChat /\ [][NextGreeting]_allVars

\* =================================================================== claims

\* C1: after an updateActivity() at time t on an active session, with no
\* further operation, the session is active at every time before
\* t + timeoutDuration, and once t + timeoutDuration is reached and the due
\* timers have run, endSession has run exactly once: the record is inactive
\* and the persisted entry is gone.
C1_TimeoutAfterActivity ==
    (last.op = "updateActivity" /\ last.was = "active") =>
        /\ now < last.at + timeoutDuration =>
                IsActive(queuedInfo) /\ last.ends = 0
        /\ (\/ now > last.at + timeoutDuration
            \/ now = last.at + timeoutDuration /\ DueTimers = {}) =>
                ~IsActive(queuedInfo) /\ storage = NoRecord /\ last.ends = 1

\* C2: after startSession() and no other operation a timer for
\* timeoutDuration is pending, and once timeoutDuration has elapsed the
\* session is inactive.
C2_StartSessionArmsTimer ==
    last.op = "startSession" =>
        /\ (last.quiet /\ now < last.at + timeoutDuration) =>
                \E t \in LiveTimers :
                    t.id = timeoutRef /\ t.due = last.at + timeoutDuration
        /\ (now >= last.at + timeoutDuration /\ DueTimers = {}) =>
                ~IsActive(queuedInfo)

\* the first operation after a reload that interrupted an active session
\* is a getSessionId()
FirstGetAfterReload == last.op = "getSessionId" /\ last.prior.sessionId # 0

\* C3 as stated: when the page is reloaded while a session is active, less
\* than timeoutDuration after its last activity, the first getSessionId()
\* after the reload returns the id of that session.
C3_SurvivesReload ==
    (/\ FirstGetAfterReload
     /\ last.at - last.prior.lastActivityTime < timeoutDuration) =>
        last.ret = last.prior.sessionId

\* C3 as amended: when the page is reloaded while the mounted widget has an
\* active session, handleBeforeUnload removes the persisted record, so the
\* first getSessionId() after the reload finds nothing to restore and
\* returns an id different from that session's.
C3_ReloadEndsSession ==
    FirstGetAfterReload =>
        /\ last.stored = NoRecord
        /\ last.ret # 0
        /\ last.ret # last.prior.sessionId

\* C3 witness: a getSessionId() right after such a reload, within the
\* timeout of the interrupted session
C3_Witness ==
    /\ FirstGetAfterReload
    /\ last.at - last.prior.lastActivityTime < timeoutDuration
    /\ last.ret # 0

\* the first getSessionId() of a hook instance found a persisted record
\* whose last activity was less than timeoutDuration ago
FoundFresh ==
    /\ last.op = "getSessionId"
    /\ last.firstGet
    /\ last.stored.sessionId # 0
    /\ last.at - last.stored.lastActivityTime < timeoutDuration

\* the first getSessionId() of a hook instance found a persisted record
\* whose last activity was timeoutDuration or more ago
FoundStale ==
    /\ last.op = "getSessionId"
    /\ last.firstGet
    /\ last.stored.sessionId # 0
    /\ last.at - last.stored.lastActivityTime >= timeoutDuration

\* C4: when the first getSessionId() of a hook instance finds a persisted
\* record with elapsed < timeoutDuration since its last activity, it returns
\* the record's sessionId, the session is active with the stored times, and
\* the timer in timeoutRef is armed for exactly timeoutDuration - elapsed.
C4_RestoreIdempotence ==
    FoundFresh =>
        /\ last.ret = last.stored.sessionId
        /\ last.quiet =>
            /\ queuedInfo = RestoredSession(last.stored)
            /\ \E t \in LiveTimers :
                /\ t.id = timeoutRef
                /\ t.due - last.at =
                      timeoutDuration - (last.at - last.stored.lastActivityTime)

\* C4 witness: a remounted widget restored a session some time after its
\* last activity
C4_Witness ==
    /\ FoundFresh
    /\ last.quiet
    /\ instances > 1
    /\ last.at - last.stored.lastActivityTime > 0
    /\ last.ret = last.stored.sessionId

\* C5: when the persisted record's last activity is timeoutDuration or more
\* in the past, restore reinstates no session, the stale entry is removed,
\* and getSessionId() returns an id different from the discarded record's.
C5_RestoreExpiry ==
    FoundStale =>
        /\ last.ret # last.stored.sessionId
        /\ storage.sessionId # last.stored.sessionId
        /\ queuedInfo.sessionId # last.stored.sessionId

\* C6: two getSessionId() calls with no endSession, timer expiry, clear,
\* unmount or reload between them return the same id.
C6_CreateOrReuse ==
    (last.op = "getSessionId" /\ last.held # 0) => last.ret = last.held

\* C7: endSession() on an active session leaves no inactivity timer
\* pending, the record inactive and no persisted entry; endSession() when
\* no session is active changes nothing.
C7_EndSession ==
    last.op = "endSession" =>
        /\ last.was = "active" =>
                LiveTimers = {} /\ ~IsActive(queuedInfo) /\ storage = NoRecord
        /\ last.was = "idle" => last.noop

\* C9: at most one inactivity timer of the mounted hook is pending.
C9_SingleTimer == Cardinality(LiveTimers) <= 1

\* C10: when the tab becomes hidden while a session is active, the timer in
\* timeoutRef is afterwards armed for HiddenTimeout from the moment of
\* hiding, and with no further operation the session has ended once that
\* time has passed.
C10_HiddenRearm ==
    (last.op = "hide" /\ last.was = "active") =>
        /\ last.quiet =>
                \E t \in LiveTimers :
                    t.id = timeoutRef /\ t.due = last.at + HiddenTimeout
        /\ now > last.at + HiddenTimeout => ~IsActive(queuedInfo)

\* C11: when the tab becomes visible again while the session is active, the
\* timer in timeoutRef is afterwards armed for the full timeoutDuration from
\* that moment, and with no further operation the session stays active at
\* every time before that moment plus timeoutDuration.
C11_VisibleRestoresTimeout ==
    (last.op = "show" /\ last.was = "active") =>
        /\ last.quiet =>
                \E t \in LiveTimers :
                    t.id = timeoutRef /\ t.due = last.at + timeoutDuration
        /\ now < last.at + timeoutDuration => IsActive(queuedInfo)

\* C12: a completion request sent after a clear of the chat never carries a
\* session id that a request sent before that clear carried, and right after
\* the clear the old session is ended: record inactive, persisted entry
\* removed, no inactivity timer of the widget pending.
C12_ClearSeparatesIds ==
    /\ hist.sentBefore \cap hist.sentAfter = {}
    /\ hist.op = "clear" =>
            /\ ~IsActive(queuedInfo)
            /\ storage = NoRecord
            /\ LiveTimers = {}

\* C13: while the user stays logged in, between logouts and clears of the
\* chat the greeting endpoint is called at most once, whatever the outcome of
\* the call.
C13_GreetingSingleFetch == hist.greetCalls <= 1

\* C14: in every reachable state at most one greeting request of the mounted
\* widget is in flight.
C14_OneGreetingInFlight == inFlight.greeting <= 1

\* C15: once the show delay after a successful greeting request has run, the
\* notification is shown; while it is shown its auto-hide timer is armed for
\* what is left of 15000 ms; and a shown notification is hidden only by the
\* widget going away, by a clear of the chat, or by handleClose, run by a
\* click, by the close button or by the auto-hide timer after 15000 ms.
C15_AutoExpire ==
    /\ [](/\ (isVisible /\ "visible" \notin effects /\ "autohide" \notin effects) =>
                \E t \in toastTimers :
                    t.live /\ t.kind = "hide" /\ t.left = AutoHideDelay - hist.shownFor
          /\ (/\ mounted
              /\ ToastMounted(showNotification, greetingMessage)
              /\ effects = {}
              /\ ~\E t \in toastTimers : t.live /\ t.kind = "fade") => isVisible)
    /\ [][(isVisible /\ ~isVisible') =>
                \/ ~mounted'
                \/ hist'.op = "clear"
                \/ \E t \in toastTimers' \ toastTimers : t.kind = "fade"]_allVars

\* C16: between logins and clears of the chat the notification is shown at
\* most once, also across an unmount and remount of the widget by navigation.
C16_OneGreetingPerLogin == hist.shows <= 1

\* C17: whenever the user is logged out the greeting state is idle: no
\* message, notification not shown, not loading, fetch guard cleared; a
\* request or a show timer of before the logout that completes afterwards
\* changes nothing.
C17_LoggedOutIdle ==
    ~isLoggedIn =>
        /\ greetingMessage = NoGreeting
        /\ ~showNotification
        /\ ~loadingGreeting
        /\ ~hasAttemptedFetch
        /\ ~isVisible

\* logged out, and a greeting request or show timer of before the logout has
\* completed since
C17_Witness == ~isLoggedIn /\ hist.late

\* the entries of a transcript that hold the greeting
GreetingEntries(ms) == {i \in DOMAIN ms : ms[i] = Entry("bot", GreetingText)}

C19_RejectedSendIsNoOp ==
    /\ [](inFlight.chat <= 1)
    /\ [][hist'.op = "sendRejected" =>
                UNCHANGED <<messages, loading, inFlight, sessionInfo, queuedInfo,
                            dirty, timers, timeoutRef, storage>>]_allVars
    /\ [][(hist'.op = "send") =>
                /\ ~loading
                /\ inFlight.chat = 0
                /\ inFlight'.chat = 1
                /\ messages' = Append(messages, Entry("user", "hi"))]_allVars
    /\ [][inFlight'.chat > inFlight.chat => hist'.op = "send"]_allVars

\* a send has been rejected while a completion request was in flight
C19_Witness == hist.op = "sendRejected" /\ loading /\ inFlight.chat = 1

\* C20: an accepted send appends the user entry at once and sets the
\* in-flight flag; when its request settles, with a reply, an empty payload
\* or a failure, exactly one assistant entry is appended and the flag is
\* cleared; the flag is set exactly while a request of the mounted widget is
\* outstanding.
C20_SendSettles ==
    /\ [](loading <=> inFlight.chat > 0)
    /\ [][hist'.op = "send" =>
                /\ Len(messages') = Len(messages) + 1
                /\ SubSeq(messages', 1, Len(messages)) = messages
                /\ messages'[Len(messages')].type = "user"
                /\ loading']_allVars
    /\ [][hist'.op = "reply" =>
                /\ inFlight'.chat = inFlight.chat - 1
                /\ Len(messages') = Len(messages) + 1
                /\ SubSeq(messages', 1, Len(messages)) = messages
                /\ messages'[Len(messages')] \in {BotReply(o) : o \in ChatOutcomes}
                /\ ~loading']_allVars

\* a completion request has failed and its error entry closes the transcript
C20_Witness ==
    /\ hist.op = "reply"
    /\ messages[Len(messages)] = BotReply("error")
    /\ Len(messages) >= 2
    /\ messages[Len(messages) - 1].type = "user"

\* C21: the assistant text appended for a settled completion request follows
\* the taxonomy: timeout, 401/403, 429, 500, any other status (which the
\* text names), no response received, and a success without response field
\* each get their message, and these messages differ from class to class.
C21_ErrorTaxonomy ==
    hist.op = "reply" =>
        LET res == hist.res
            text == messages[Len(messages)].content
            http == res.kind = "error" /\ res.axios /\ res.code # "ECONNABORTED" /\ res.status # 0
        IN  /\ messages[Len(messages)].type = "bot"
            /\ res = TimedOut =>
                    text = "The AI is taking longer than usual to respond. This might be due to complex processing. Please try a simpler question or try again later."
            /\ (http /\ res.status \in {401, 403}) => text = "Please log in to use the chatbot."
            /\ (http /\ res.status = 429) =>
                    text = "Too many requests. Please wait a moment and try again."
            /\ (http /\ res.status = 500) => text = "Server error. Please try again later."
            /\ (http /\ res.status \notin {401, 403, 429, 500}) =>
                    text = "Service error (" \o ToString(res.status) \o "). Please try again."
            /\ res = NoAnswer =>
                    text = "Unable to connect to the service. Please check your internet connection."
            /\ res = Data("") => text = "No response from AI."
            /\ res = Data("reply") => text = "reply"
            /\ \A other \in CompletionResults :
                    (AssistantText(other) = text) =>
                        \/ other = res
                        \/ {other.status, res.status} = {401, 403}
                        \/ {other, res} = {NotSent, Thrown}

\* a request answered with status 503 has settled
C21_Witness == hist.op = "reply" /\ hist.res = HttpError(503)

\* C22: while the widget is unmounted no timer it armed is pending: no
\* inactivity or background timer of the session, no show-delay, auto-expire
\* or fade-out timer of the notification.
C22_UnmountClearsTimers ==
    ~mounted => (timers = {} /\ toastTimers = {})

\* C23: updateActivity() does nothing exactly when no session is active;
\* when a session is active, also one that getSessionId() has created or
\* restored in the same handler, then afterwards lastActivityTime is the time
\* of the call, the persisted record carries it, and the timer in timeoutRef
\* is armed for the full timeoutDuration from then.
C23_UpdateActivityGuard ==
    last.op = "updateActivity" =>
        /\ last.noop <=> last.was = "idle"
        /\ (last.was # "idle" /\ last.quiet /\ now = last.at) =>
                /\ queuedInfo.lastActivityTime = last.at
                /\ storage = Persisted(queuedInfo)
                /\ \E t \in LiveTimers :
                        t.id = timeoutRef /\ t.due = last.at + timeoutDuration

\* C24: a session reinstated by the first getSessionId() of a hook instance
\* with no activity after it is ended once the rest of its timeout has run:
\* when timeoutDuration has passed since the stored last activity and the
\* due timers have run, the record is inactive and the persisted entry gone.
C24_RestoredExpires ==
    (/\ FoundFresh
     /\ last.ret = last.stored.sessionId
     /\ now >= last.stored.lastActivityTime + timeoutDuration
     /\ DueTimers = {}
     /\ ~dirty) =>
        /\ ~IsActive(queuedInfo)
        /\ storage = NoRecord

\* the first getSessionId() of a hook instance found an entry that is no
\* valid record, or could not read the storage
FoundBad ==
    /\ last.op = "getSessionId"
    /\ last.firstGet
    /\ last.stored.sessionId < 0

\* C25: when the persisted value cannot be read or parsed or has no valid
\* lastActivityTime, the first getSessionId() raises no error and returns a
\* freshly generated id, nothing is reinstated, no timer is armed, and the
\* bad entry is gone: storage holds the record of the new session.
C25_BadEntryIgnored ==
    FoundBad =>
        /\ last.ret = nextUuid - 1
        /\ last.ret > 0
        /\ queuedInfo.sessionId = last.ret
        /\ timers = {}
        /\ storage = Persisted(queuedInfo)

\* C26: with the drawer open, an empty transcript and a greeting at hand,
\* the greeting becomes the only entry of the transcript, as an assistant
\* entry, and stays its first entry while the greeted flag is set; the flag
\* is set only by that insertion in an empty transcript, so closing and
\* reopening the drawer inserts nothing; and a transcript is emptied only
\* together with the greeting at hand, so a later insertion is of a greeting
\* that arrived after the clear.
C26_GreetingOnce ==
    /\ []((Quiet /\ open /\ greetingMessage # NoGreeting) => messages # <<>>)
    /\ [](hasShownInitialGreeting =>
              /\ messages # <<>>
              /\ messages[1] = Entry("bot", GreetingText))
    /\ [][(hasShownInitialGreeting' /\ ~hasShownInitialGreeting) =>
                /\ open
                /\ messages = <<>>
                /\ greetingMessage # NoGreeting
                /\ messages' = <<Entry("bot", greetingMessage)>>]_allVars
    /\ [][(messages # <<>> /\ messages' = <<>>) => greetingMessage' = NoGreeting]_allVars
    /\ [][GreetingEntries(messages') # GreetingEntries(messages) =>
                \/ messages' = <<>>
                \/ messages = <<>> /\ hasShownInitialGreeting' /\ ~hasShownInitialGreeting]_allVars

\* the drawer has been closed and opened again over a transcript that holds
\* the greeting, and the effects have run: the transcript is as it was
C26_Witness ==
    /\ Quiet
    /\ open
    /\ ~hasShownInitialGreeting
    /\ greetingMessage # NoGreeting
    /\ messages = <<Entry("bot", GreetingText)>>

\* s is an initial part of t
IsPrefix(s, t) == Len(s) <= Len(t) /\ SubSeq(t, 1, Len(s)) = s

\* C27: while the widget stays mounted and the page is not reloaded, every
\* step other than a clear of the chat leaves the transcript as an initial part of the new transcript:
\* the insertion of the greeting, the user entry of a send and the assistant
\* entry of a reply or failure only add at the end, however the arrival of
\* the greeting and the settling of the completion request interleave.
C27_AppendOnly ==
    [][(mounted /\ mounted' /\ hist'.op \notin {"clear", "reload"})
            => IsPrefix(messages, messages')]_allVars

\* the greeting was inserted while a completion request was in flight, and
\* the reply was appended after it
C27_Witness ==
    /\ mounted
    /\ messages = <<Entry("bot", GreetingText), Entry("bot", "reply")>>

\* C28: with the drawer open over a transcript that is not empty and an
\* active session, the commit of the activity update that the effect on
\* [open, messages.length, updateActivity] has made does not mark that
\* effect to run again: after its call the effect is done until the drawer,
\* the transcript or the session changes, and the timer it armed is left
\* alone.
C28_ActivityQuiesces ==
    [][(/\ dirty
        /\ ~dirty'
        /\ "open" \notin effects
        /\ open
        /\ messages # <<>>
        /\ IsActive(sessionInfo)
        /\ IsActive(queuedInfo)) => "open" \notin effects']_allVars

\* C29: when the chat is cleared while a completion request is in flight,
\* the reply or failure of that request is not appended: the step in which
\* a request sent before the last clear settles leaves the transcript as
\* it is.
C29_ClearedReplyDropped ==
    [][(hist'.op = "reply" /\ hist.sentAfter = {}) => messages' = messages]_allVars

\* C30: whenever the mounted hook has rendered an active session, the entry
\* under 'maxChatSession' holds the sessionId, startTime and
\* lastActivityTime of that record; and whenever the rendered record is one
\* that endSession has made inactive, there is no entry.
C30_StorageAgrees ==
    (mounted /\ ~dirty /\ persistInSession) =>
        /\ IsActive(sessionInfo) => storage = Persisted(sessionInfo)
        /\ (sessionInfo.sessionId # 0 /\ ~sessionInfo.isActive) => storage = NoRecord

====
